---- MODULE Spec2Model ----
(***************************************************************************)
(* A model of the free-tier quota guard of jupyter/py_src/bq_guard.py:     *)
(* the usage probes, the dry-run estimate, the allowance check and         *)
(* safe_query, with the warehouse (billed query bytes per location,        *)
(* dataset storage) as shared state.                                       *)
(*                                                                         *)
(* Byte counts are in scaled units: a query byte unit is 512 GiB (so the   *)
(* 1 TiB ceiling is 2), a storage byte unit is 5 GiB (so the 10 GiB        *)
(* ceiling is 2).  Python integers are unbounded, so no width is modelled. *)
(* Strings are sequences of one-character strings, so that strip, upper,   *)
(* startswith and split are computed and not assumed.                      *)
(***************************************************************************)
EXTENDS Integers, Sequences, FiniteSets, TLC

VARIABLES
    billed,      \* warehouse: location code -> bytes billed by DONE query jobs this month
    dsBytes,     \* warehouse: logical bytes of each dataset of the project
    pc,          \* per caller: position inside its safe_query call
    args,        \* per caller: the arguments of the call in progress
    it,          \* per caller: how many items of the regions iterable are consumed
    loc,         \* per caller: the locals used_query, used_storage, planned
    outcome,     \* per caller: how the call ended (returned / None / raised, and the error)
    hist,        \* per caller: history of the call in progress (requests issued, values read)
    ncalls,      \* number of safe_query calls started so far
    input,       \* the arguments of a helper applied on its own
    output       \* its result

vars == <<billed, dsBytes, pc, args, it, loc, outcome, hist, ncalls, input, output>>

(***************************************************************************)
(* Strings                                                                 *)
(***************************************************************************)
S_region_eu == <<"r","e","g","i","o","n","-","e","u">>
S_region_us == <<"r","e","g","i","o","n","-","u","s">>
S_eu_padded == <<" ","e","u"," ">>
S_EU == <<"E","U">>
S_US == <<"U","S">>
S_us == <<"u","s">>
S_region_dash == <<"r","e","g","i","o","n","-">>

\* str.upper() on the characters the model uses
UpperChar(c) ==
    CASE c = "e" -> "E" [] c = "u" -> "U" [] c = "s" -> "S" [] c = "r" -> "R"
      [] c = "g" -> "G" [] c = "i" -> "I" [] c = "o" -> "O" [] c = "n" -> "N"
      [] OTHER -> c

upper(s) == [i \in 1..Len(s) |-> UpperChar(s[i])]

RECURSIVE lstrip(_)
lstrip(s) == IF s # <<>> /\ Head(s) = " " THEN lstrip(Tail(s)) ELSE s

RECURSIVE rstrip(_)
rstrip(s) == IF s # <<>> /\ s[Len(s)] = " " THEN rstrip(SubSeq(s, 1, Len(s) - 1)) ELSE s

strip(s) == rstrip(lstrip(s))

startswith(s, prefix) ==
    Len(s) >= Len(prefix) /\ SubSeq(s, 1, Len(prefix)) = prefix

\* s.split(sep, 1)[1]: what follows the first occurrence of the character sep
RECURSIVE AfterFirst(_, _)
AfterFirst(s, sep) ==
    IF s = <<>> THEN <<>>
    ELSE IF Head(s) = sep THEN Tail(s) ELSE AfterFirst(Tail(s), sep)

\* _region_to_location
region_to_location(region) ==
    LET r == strip(region) IN
    IF upper(r) \in {S_EU, S_US} THEN upper(r)
    ELSE IF startswith(r, S_region_dash) THEN upper(AfterFirst(r, "-"))
    ELSE upper(r)

(***************************************************************************)
(* _month_bounds_utc                                                       *)
(***************************************************************************)
IsLeap(y) == (y % 4 = 0 /\ y % 100 # 0) \/ y % 400 = 0

DaysInMonth(y, m) ==
    IF m = 2 THEN (IF IsLeap(y) THEN 29 ELSE 28)
    ELSE IF m \in {4, 6, 9, 11} THEN 30 ELSE 31

\* datetime + timedelta(days=1)
NextDay(d) ==
    IF d.day < DaysInMonth(d.year, d.month) THEN [d EXCEPT !.day = d.day + 1]
    ELSE IF d.month < 12 THEN [d EXCEPT !.month = d.month + 1, !.day = 1]
    ELSE [d EXCEPT !.year = d.year + 1, !.month = 1, !.day = 1]

\* datetime + timedelta(days=n)
RECURSIVE AddDays(_, _)
AddDays(d, n) == IF n = 0 THEN d ELSE AddDays(NextDay(d), n - 1)

\* now.replace(day=1, hour=0, minute=0, second=0, microsecond=0)
MonthStart(now) ==
    [now EXCEPT !.day = 1, !.hour = 0, !.minute = 0, !.second = 0, !.microsecond = 0]

\* the timedelta of line 29
RolloverDays == 4

\* the same with one day less added to the 28th
MonthEndShort(start) == [AddDays([start EXCEPT !.day = 28], RolloverDays - 1) EXCEPT !.day = 1]

\* (start.replace(day=28) + timedelta(days=4)).replace(day=1)
MonthEnd(start) == [AddDays([start EXCEPT !.day = 28], RolloverDays) EXCEPT !.day = 1]

month_bounds_utc(now) ==
    LET start == MonthStart(now) IN <<start, MonthEnd(start)>>

(***************************************************************************)
(* Iterables, errors, the warehouse                                        *)
(***************************************************************************)
\* Python's None, where a string is optional
None == <<"<None>">>

\* the exception classes the except clauses tell apart
ErrTypes == {"RuntimeError", "Other"}

NoErr == [type |-> "none", origin |-> "none"]

\* what `for region in regions` yields when `consumed` items were already
\* taken: a list is traversed from its start each time, an iterator or a
\* generator only continues
Iterate(regions, consumed) ==
    IF regions.oneShot
    THEN SubSeq(regions.items, consumed + 1, Len(regions.items))
    ELSE regions.items

\* the items consumed once a for loop over the iterable has run to its end
Exhaust(regions, consumed) ==
    IF regions.oneShot THEN Len(regions.items) ELSE consumed

(***************************************************************************)
(* _sum_query_bytes_billed: total = 0; for region: total += billed         *)
(***************************************************************************)
RECURSIVE SumQueryLoop(_, _, _)
SumQueryLoop(b, regs, total) ==
    IF regs = <<>> THEN total
    ELSE SumQueryLoop(b, Tail(regs), total + b[region_to_location(Head(regs))])

sum_query_bytes_billed(b, regs) == SumQueryLoop(b, regs, 0)

(***************************************************************************)
(* _sum_storage_bytes.  env.fast[region] is the result of the project-wide *)
(* query of that region (ok = FALSE when it raises), env.listing the       *)
(* outcome                                                                 *)
(* of client.list_datasets, env.datasets the project's datasets, each with *)
(* its location (or None), its logical bytes and whether get_dataset and   *)
(* the TABLE_STORAGE query on it succeed.  The result carries the trace of *)
(* the requests issued, each tagged with the index of its region.          *)
(***************************************************************************)
\* (ds_ref.location or "")
OrEmpty(x) == IF x = None THEN <<>> ELSE x

\* the per-dataset loop of lines 91-103 for the region at index i
RECURSIVE DatasetLoop(_, _, _, _, _)
DatasetLoop(dss, j, location, i, acc) ==
    IF j > Len(dss) THEN acc
    ELSE LET ds == dss[j] IN
         IF ~ds.getOk
         THEN DatasetLoop(dss, j + 1, location, i,
                          [acc EXCEPT !.trace = Append(@, <<"get", i, j>>)])
         ELSE IF upper(OrEmpty(ds.location)) # location
         THEN DatasetLoop(dss, j + 1, location, i,
                          [acc EXCEPT !.trace = Append(@, <<"get", i, j>>)])
         ELSE IF ~ds.queryOk
         THEN DatasetLoop(dss, j + 1, location, i,
                          [acc EXCEPT !.trace = @ \o << <<"get", i, j>>, <<"query", i, j>> >>])
         ELSE DatasetLoop(dss, j + 1, location, i,
                          [acc EXCEPT !.trace = @ \o << <<"get", i, j>>, <<"query", i, j>> >>,
                                      !.total = @ + ds.bytes])

\* the fallback without the location filter of line 94
RECURSIVE DatasetLoopNoFilter(_, _, _, _, _)
DatasetLoopNoFilter(dss, j, location, i, acc) ==
    IF j > Len(dss) THEN acc
    ELSE LET ds == dss[j] IN
         IF ~ds.getOk \/ ~ds.queryOk
         THEN DatasetLoopNoFilter(dss, j + 1, location, i,
                          [acc EXCEPT !.trace = Append(@, <<"get", i, j>>)])
         ELSE DatasetLoopNoFilter(dss, j + 1, location, i,
                          [acc EXCEPT !.trace = @ \o << <<"get", i, j>>, <<"query", i, j>> >>,
                                      !.total = @ + ds.bytes])

FallbackNoFilter(dss, location, i, acc) == DatasetLoopNoFilter(dss, 1, location, i, acc)

\* the fallback of one region: lines 91-103
Fallback(dss, location, i, acc) == DatasetLoop(dss, 1, location, i, acc)

\* the loop over the regions: lines 68-103
RECURSIVE StorageLoop(_, _, _, _)
StorageLoop(env, regs, i, acc) ==
    IF i > Len(regs) THEN acc
    ELSE LET region == regs[i]
             location == region_to_location(region)
             tried == [acc EXCEPT !.trace = Append(@, <<"fast", i>>)]
         IN IF env.fast[region].ok
            THEN StorageLoop(env, regs, i + 1,
                             [tried EXCEPT !.total = @ + env.fast[region].bytes])
            ELSE LET listed == [tried EXCEPT !.trace = Append(@, <<"list", i>>)] IN
                 IF env.listing # "ok"
                 THEN [listed EXCEPT !.raised = env.listing]
                 ELSE StorageLoop(env, regs, i + 1,
                                  Fallback(env.datasets, location, i, listed))

sum_storage_bytes(env, regs) ==
    StorageLoop(env, regs, 1, [raised |-> "none", total |-> 0, trace |-> <<>>])

(***************************************************************************)
(* estimate_query_bytes: the dry run reports the bytes the query would     *)
(* process and bills nothing                                               *)
(***************************************************************************)
estimate_query_bytes(sql) == sql.bytes

(***************************************************************************)
(* check_free_tier_allowance, lines 142-163, on the probed values          *)
(***************************************************************************)
Max(a, b) == IF a >= b THEN a ELSE b

QueryQuotaError(used_query, planned, query_limit_bytes) ==
    [type |-> "RuntimeError", origin |-> "query_quota",
     used |-> used_query, planned |-> planned,
     remain |-> Max(query_limit_bytes - used_query, 0)]

StorageQuotaError(used_storage, storage_limit_bytes) ==
    [type |-> "RuntimeError", origin |-> "storage_quota",
     used |-> used_storage, limit |-> storage_limit_bytes]

Snapshot(used_query, planned, used_storage, query_limit_bytes, storage_limit_bytes) ==
    [used_query_bytes |-> used_query,
     planned_query_bytes |-> planned,
     query_limit_bytes |-> query_limit_bytes,
     used_storage_bytes |-> used_storage,
     storage_limit_bytes |-> storage_limit_bytes]

\* the storage comparison with >= in place of >
CheckAllowanceStrict(used_query, planned, used_storage, query_limit_bytes, storage_limit_bytes) ==
    IF used_query + planned > query_limit_bytes
    THEN [kind |-> "raise",
          err |-> QueryQuotaError(used_query, planned, query_limit_bytes)]
    ELSE IF used_storage >= storage_limit_bytes
    THEN [kind |-> "raise",
          err |-> StorageQuotaError(used_storage, storage_limit_bytes)]
    ELSE [kind |-> "return",
          stats |-> Snapshot(used_query, planned, used_storage,
                             query_limit_bytes, storage_limit_bytes)]

\* the two checks in the other order
CheckAllowanceStorageFirst(used_query, planned, used_storage, query_limit_bytes, storage_limit_bytes) ==
    IF used_storage > storage_limit_bytes
    THEN [kind |-> "raise",
          err |-> StorageQuotaError(used_storage, storage_limit_bytes)]
    ELSE IF used_query + planned > query_limit_bytes
    THEN [kind |-> "raise",
          err |-> QueryQuotaError(used_query, planned, query_limit_bytes)]
    ELSE [kind |-> "return",
          stats |-> Snapshot(used_query, planned, used_storage,
                             query_limit_bytes, storage_limit_bytes)]

\* the query check comparing the used bytes alone, without the planned ones
CheckAllowanceUsedOnly(used_query, planned, used_storage, query_limit_bytes, storage_limit_bytes) ==
    IF used_query > query_limit_bytes
    THEN [kind |-> "raise",
          err |-> QueryQuotaError(used_query, planned, query_limit_bytes)]
    ELSE IF used_storage > storage_limit_bytes
    THEN [kind |-> "raise",
          err |-> StorageQuotaError(used_storage, storage_limit_bytes)]
    ELSE [kind |-> "return",
          stats |-> Snapshot(used_query, planned, used_storage,
                             query_limit_bytes, storage_limit_bytes)]

\* lines 142-163
check_allowance(used_query, planned, used_storage, query_limit_bytes, storage_limit_bytes) ==
    IF used_query + planned > query_limit_bytes
    THEN [kind |-> "raise",
          err |-> QueryQuotaError(used_query, planned, query_limit_bytes)]
    ELSE IF used_storage > storage_limit_bytes
    THEN [kind |-> "raise",
          err |-> StorageQuotaError(used_storage, storage_limit_bytes)]
    ELSE [kind |-> "return",
          stats |-> Snapshot(used_query, planned, used_storage,
                             query_limit_bytes, storage_limit_bytes)]

(***************************************************************************)
(* The callers' state while a helper is applied on its own                 *)
(***************************************************************************)
Procs == {1, 2}

LocCodes == {S_EU, S_US}

NoArgs == [sql |-> [text |-> "", bytes |-> 0], location |-> S_EU,
           regions |-> [items |-> <<>>, oneShot |-> FALSE],
           fail_soft |-> FALSE]

NoLocals == [used_query |-> 0, used_storage |-> 0, planned |-> 0]

NoOutcome == [kind |-> "pending", err |-> NoErr]

NoHist == [probedQ |-> FALSE, probedS |-> FALSE, checked |-> "no",
           dryRuns |-> 0, submitted |-> 0,
           visitedQ |-> <<>>, visitedS |-> <<>>]

CallersIdle ==
    /\ pc = [p \in Procs |-> "idle"]
    /\ args = [p \in Procs |-> NoArgs]
    /\ it = [p \in Procs |-> 0]
    /\ loc = [p \in Procs |-> NoLocals]
    /\ outcome = [p \in Procs |-> NoOutcome]
    /\ hist = [p \in Procs |-> NoHist]
    /\ ncalls = 0

mainVars == <<billed, dsBytes, pc, args, it, loc, outcome, hist, ncalls>>

Pending == [done |-> FALSE]

(***************************************************************************)
(* _month_bounds_utc applied to a current time                             *)
(***************************************************************************)
FirstYear == 2096
YearSpan == 4

Years == (FirstYear .. FirstYear + YearSpan) \cup {2000, 2024}

\* times of day: midnight, the last microsecond of the day, one in between
TimesOfDay == { <<0, 0, 0, 0>>, <<23, 59, 59, 999999>>, <<12, 30, 15, 500>> }

Nows ==
    { [year |-> y, month |-> m, day |-> d, hour |-> t[1], minute |-> t[2],
       second |-> t[3], microsecond |-> t[4], tz |-> "UTC"] :
         y \in Years, m \in 1..12, d \in 1..31, t \in TimesOfDay }

MonthInit ==
    /\ billed = [l \in LocCodes |-> 0]
    /\ dsBytes = [j \in {1, 2} |-> 0]
    /\ CallersIdle
    /\ input \in { n \in Nows : n.day <= DaysInMonth(n.year, n.month) }
    /\ output = Pending

MonthBounds ==
    /\ ~output.done
    /\ output' = [done |-> TRUE, res |-> month_bounds_utc(input)]
    /\ UNCHANGED <<input, mainVars>>

SpecMonth == MonthInit /\ [][MonthBounds]_vars

\* datetimes compared as Python compares them
DateLess(a, b) ==
    LET ka == <<a.year, a.month, a.day, a.hour, a.minute, a.second, a.microsecond>>
        kb == <<b.year, b.month, b.day, b.hour, b.minute, b.second, b.microsecond>>
    IN \E i \in 1..7 : ka[i] < kb[i] /\ \A j \in 1..(i - 1) : ka[j] = kb[j]

Midnight(d) == d.hour = 0 /\ d.minute = 0 /\ d.second = 0 /\ d.microsecond = 0

\* C7: start is day 1, 00:00:00 of the current month, end is day 1, 00:00:00
\* of the month that follows it (January of the next year after December),
\* both UTC, and end > start.
C7_MonthBounds ==
    output.done =>
        LET start == output.res[1]
            end == output.res[2]
        IN /\ start.year = input.year /\ start.month = input.month
           /\ start.day = 1 /\ Midnight(start) /\ start.tz = "UTC"
           /\ end.day = 1 /\ Midnight(end) /\ end.tz = "UTC"
           /\ IF input.month = 12
              THEN end.year = input.year + 1 /\ end.month = 1
              ELSE end.year = input.year /\ end.month = input.month + 1
           /\ DateLess(start, end)

\* the bounds of a leap February taken on its last day, at the last microsecond
C7_Witness ==
    /\ output.done
    /\ input.month = 2 /\ input.day = 29 /\ input.hour = 23
    /\ output.res[2].month = 3

(***************************************************************************)
(* check_free_tier_allowance applied to probed values and limits           *)
(***************************************************************************)
MaxBytes == 3

DecideInit ==
    /\ billed = [l \in LocCodes |-> 0]
    /\ dsBytes = [j \in {1, 2} |-> 0]
    /\ CallersIdle
    /\ input \in [used_query : 0..MaxBytes, planned : 0..MaxBytes,
                  used_storage : 0..MaxBytes,
                  query_limit_bytes : 0..MaxBytes, storage_limit_bytes : 0..MaxBytes]
    /\ output = Pending

Decide ==
    /\ ~output.done
    /\ output' = [done |-> TRUE,
                  res |-> check_allowance(input.used_query, input.planned,
                                          input.used_storage, input.query_limit_bytes,
                                          input.storage_limit_bytes)]
    /\ UNCHANGED <<input, mainVars>>

SpecDecide == DecideInit /\ [][Decide]_vars

\* C1: the check returns the snapshot iff used_query + planned <= query limit
\* and used_storage <= storage limit, both boundaries allowed; otherwise it raises.
C1_AllowIff ==
    output.done =>
        /\ output.res.kind \in {"return", "raise"}
        /\ (output.res.kind = "return") <=>
              (/\ input.used_query + input.planned <= input.query_limit_bytes
               /\ input.used_storage <= input.storage_limit_bytes)
        /\ output.res.kind = "return" =>
              /\ output.res.stats.used_query_bytes = input.used_query
              /\ output.res.stats.planned_query_bytes = input.planned
              /\ output.res.stats.used_storage_bytes = input.used_storage
              /\ output.res.stats.query_limit_bytes = input.query_limit_bytes
              /\ output.res.stats.storage_limit_bytes = input.storage_limit_bytes

\* both boundaries at once, with usage present: allowed
C1_Witness ==
    /\ output.done
    /\ input.used_query > 0 /\ input.planned > 0 /\ input.used_storage > 0
    /\ input.used_query + input.planned = input.query_limit_bytes
    /\ input.used_storage = input.storage_limit_bytes
    /\ output.res.kind = "return"

\* C5: one error at most, the query check first: the query-quota error whenever
\* used_query + planned > query limit (also when storage is over its limit), the
\* storage-quota error only when the query check passed and storage is over.
C5_QueryCheckFirst ==
    (output.done /\ output.res.kind = "raise") =>
        /\ output.res.err.origin \in {"query_quota", "storage_quota"}
        /\ (output.res.err.origin = "query_quota") <=>
              (input.used_query + input.planned > input.query_limit_bytes)
        /\ (output.res.err.origin = "storage_quota") <=>
              (/\ input.used_query + input.planned <= input.query_limit_bytes
               /\ input.used_storage > input.storage_limit_bytes)

\* both ceilings exceeded: the query-quota error is the one raised
C5_Witness ==
    /\ output.done
    /\ input.used_query + input.planned > input.query_limit_bytes
    /\ input.used_storage > input.storage_limit_bytes
    /\ output.res.kind = "raise"
    /\ output.res.err.origin = "query_quota"

(***************************************************************************)
(* _sum_storage_bytes applied to a region list and a warehouse             *)
(***************************************************************************)
MaxRegions == 2

RegionNames == {S_region_eu, S_region_us, S_eu_padded}

RegionLists == UNION { [1..n -> RegionNames] : n \in 0..MaxRegions }

\* the bytes the project-wide query of a region reports when it succeeds
FastBytes(region) == IF region = S_region_us THEN 2 ELSE 1

DatasetIds == {1, 2}

DatasetChoices(j) ==
    [location : {S_EU, S_us, None}, bytes : {j}, getOk : BOOLEAN, queryOk : BOOLEAN]

StorageEnvs ==
    { [fast |-> [r \in RegionNames |-> [ok |-> r \notin failing, bytes |-> FastBytes(r)]],
       listing |-> l,
       datasets |-> <<d1, d2>>] :
         failing \in SUBSET RegionNames, l \in {"ok"} \cup ErrTypes,
         d1 \in DatasetChoices(1), d2 \in DatasetChoices(2) }

StorageInit ==
    /\ billed = [l \in LocCodes |-> 0]
    /\ dsBytes = [j \in {1, 2} |-> 0]
    /\ CallersIdle
    /\ input \in [regions : RegionLists, env : StorageEnvs]
    /\ output = Pending

SumStorage ==
    /\ ~output.done
    /\ output' = [done |-> TRUE, res |-> sum_storage_bytes(input.env, input.regions)]
    /\ UNCHANGED <<input, mainVars>>

SpecStorage == StorageInit /\ [][SumStorage]_vars

RECURSIVE SeqSum(_)
SeqSum(q) == IF q = <<>> THEN 0 ELSE Head(q) + SeqSum(Tail(q))

Count(q, e) == Cardinality({k \in 1..Len(q) : q[k] = e})

\* the location a region name stands for, and the spellings of a dataset
\* location that denote it
LocationNamed(region) == IF region = S_region_us THEN S_US ELSE S_EU

Spellings(code) == IF code = S_US THEN {S_US, S_us} ELSE {S_EU, <<"e","u">>}

\* the datasets that count for a region: in its location, both requests succeeding
Counted(env, region) ==
    { j \in 1..Len(env.datasets) :
        /\ env.datasets[j].location \in Spellings(LocationNamed(region))
        /\ env.datasets[j].getOk /\ env.datasets[j].queryOk }

\* what one region contributes to the total
Contribution(env, region) ==
    IF env.fast[region].ok THEN env.fast[region].bytes
    ELSE SeqSum([j \in 1..Len(env.datasets) |->
                    IF j \in Counted(env, region) THEN env.datasets[j].bytes ELSE 0])

\* C6: per region, a succeeding fast path adds its value and runs no fallback;
\* a failing one runs the fallback exactly once, which queries and adds only
\* the datasets in the region's location and skips the failing ones; the total
\* is the sum of the regions' contributions.
C6_StoragePerRegion ==
    /\ (output.done /\ input.env.listing = "ok") => output.res.raised = "none"
    /\ (output.done /\ output.res.raised = "none") =>
        LET env == input.env
            regs == input.regions
            tr == output.res.trace
        IN /\ output.res.total = SeqSum([i \in 1..Len(regs) |-> Contribution(env, regs[i])])
           /\ \A i \in 1..Len(regs) :
                /\ Count(tr, <<"fast", i>>) = 1
                /\ Count(tr, <<"list", i>>) = (IF env.fast[regs[i]].ok THEN 0 ELSE 1)
                /\ \A j \in 1..Len(env.datasets) :
                     /\ Count(tr, <<"get", i, j>>) = (IF env.fast[regs[i]].ok THEN 0 ELSE 1)
                     /\ Count(tr, <<"query", i, j>>) =
                          (IF /\ ~env.fast[regs[i]].ok
                              /\ env.datasets[j].getOk
                              /\ env.datasets[j].location \in Spellings(LocationNamed(regs[i]))
                           THEN 1 ELSE 0)

\* one region served by the fast path and one by the fallback, which counts a
\* dataset of its location and passes over a dataset of another location
C6_Witness ==
    /\ output.done /\ output.res.raised = "none"
    /\ Len(input.regions) = 2
    /\ input.env.fast[input.regions[1]].ok
    /\ ~input.env.fast[input.regions[2]].ok
    /\ Counted(input.env, input.regions[2]) = {1}
    /\ input.env.datasets[2].getOk /\ input.env.datasets[2].queryOk
    /\ output.res.total = input.env.fast[input.regions[1]].bytes + 1

(***************************************************************************)
(* safe_query calls against a shared warehouse                             *)
(***************************************************************************)
\* the module's default ceilings, in the scaled units
QUERY_LIMIT_BYTES == 2
STORAGE_LIMIT_BYTES == 2

MaxCalls == 2
MaxBilled == 4

\* the project's datasets: one in EU whose size changes, one in US
DatasetLocation(j) == IF j = 1 THEN S_EU ELSE S_us

StoreSizes == {1, STORAGE_LIMIT_BYTES + 1}

\* query texts: the empty text, and texts a dry run estimates at 1 and at 2
Sqls == {[text |-> "", bytes |-> 0], [text |-> "q1", bytes |-> 1], [text |-> "q2", bytes |-> 2]}

RegionArgs ==
    {[items |-> <<S_region_eu, S_region_us>>, oneShot |-> FALSE],
     [items |-> <<S_region_eu, S_region_us>>, oneShot |-> TRUE]}

CallArgs == [sql : Sqls, location : {S_EU}, regions : RegionArgs, fail_soft : BOOLEAN]

\* the warehouse as _sum_storage_bytes meets it: the project-wide query of a
\* region reports the bytes of the datasets of its location, or fails
StorageEnv(stored, fastOk, listing) ==
    [fast |-> [r \in RegionNames |->
                 [ok |-> fastOk,
                  bytes |-> SeqSum([j \in 1..2 |->
                              IF upper(DatasetLocation(j)) = region_to_location(r)
                              THEN stored[j] ELSE 0])]],
     listing |-> listing,
     datasets |-> [j \in 1..2 |-> [location |-> DatasetLocation(j), bytes |-> stored[j],
                                   getOk |-> TRUE, queryOk |-> TRUE]]]

Init ==
    /\ billed = [l \in LocCodes |-> IF l = S_US THEN 1 ELSE 0]
    /\ dsBytes \in {[j \in {1, 2} |-> IF j = 1 THEN v ELSE 1] : v \in StoreSizes}
    /\ CallersIdle
    /\ input = <<>>
    /\ output = Pending

\* a caller enters safe_query
Start(p) ==
    /\ pc[p] = "idle"
    /\ ncalls < MaxCalls
    /\ \E a \in CallArgs : args' = [args EXCEPT ![p] = a]
    /\ pc' = [pc EXCEPT ![p] = "probe_query"]
    /\ it' = [it EXCEPT ![p] = 0]
    /\ loc' = [loc EXCEPT ![p] = NoLocals]
    /\ outcome' = [outcome EXCEPT ![p] = NoOutcome]
    /\ hist' = [hist EXCEPT ![p] = NoHist]
    /\ ncalls' = ncalls + 1
    /\ UNCHANGED <<billed, dsBytes, input, output>>

\* an except clause that re-raises whatever fail_soft says
ExceptRuntimeErrorAlwaysRaise(err, fail_soft) ==
    [kind |-> "raised", err |-> err]

\* the except clause of safe_query, lines 206-211, for an error raised inside
\* the try block

ExceptRuntimeError(err, fail_soft) ==
    IF err.type = "RuntimeError"
    THEN IF fail_soft
         THEN [kind |-> "none", err |-> err]
         ELSE [kind |-> "raised", err |-> err]
    ELSE [kind |-> "raised", err |-> err]

\* the call leaves the try block with an error
Leave(p, err) ==
    LET o == ExceptRuntimeError(err, args[p].fail_soft) IN
    /\ outcome' = [outcome EXCEPT ![p] = o]
    /\ pc' = [pc EXCEPT ![p] = IF o.kind = "pending" THEN "execute" ELSE "done"]

Upstream(type) == [type |-> type, origin |-> "upstream"]

\* a probe that reuses the value another call in flight has read
ProbedQueryShared(p, regs) ==
    IF \E q \in Procs \ {p} : hist[q].probedQ
    THEN loc[CHOOSE q \in Procs \ {p} : hist[q].probedQ].used_query
    ELSE sum_query_bytes_billed(billed, regs)

\* line 135: the value of used_query
ProbedQuery(p, regs) == sum_query_bytes_billed(billed, regs)

\* line 135: _sum_query_bytes_billed(client, regions)
ProbeQuery(p) ==
    /\ pc[p] = "probe_query"
    /\ LET regs == Iterate(args[p].regions, it[p]) IN
       \/ /\ loc' = [loc EXCEPT ![p].used_query = ProbedQuery(p, regs)]
          /\ it' = [it EXCEPT ![p] = Exhaust(args[p].regions, it[p])]
          /\ hist' = [hist EXCEPT ![p].probedQ = TRUE, ![p].visitedQ = regs]
          /\ pc' = [pc EXCEPT ![p] = "probe_storage"]
          /\ UNCHANGED outcome
       \/ /\ regs # <<>>
          /\ \E type \in ErrTypes : Leave(p, Upstream(type))
          /\ UNCHANGED <<loc, it, hist>>
    /\ UNCHANGED <<billed, dsBytes, args, ncalls, input, output>>

\* line 136: _sum_storage_bytes(client, regions, project_id)
ProbeStorage(p) ==
    /\ pc[p] = "probe_storage"
    /\ LET regs == Iterate(args[p].regions, it[p]) IN
       \E fastOk \in BOOLEAN, listing \in {"ok"} \cup ErrTypes :
          LET r == sum_storage_bytes(StorageEnv(dsBytes, fastOk, listing), regs) IN
          IF r.raised = "none"
          THEN /\ loc' = [loc EXCEPT ![p].used_storage = r.total]
               /\ it' = [it EXCEPT ![p] = Exhaust(args[p].regions, it[p])]
               /\ hist' = [hist EXCEPT ![p].probedS = TRUE, ![p].visitedS = regs]
               /\ pc' = [pc EXCEPT ![p] = "estimate"]
               /\ UNCHANGED outcome
          ELSE /\ Leave(p, Upstream(r.raised))
               /\ UNCHANGED <<loc, it, hist>>
    /\ UNCHANGED <<billed, dsBytes, args, ncalls, input, output>>

\* lines 138-163 and 198-204: the dry run, when the text is not empty, then
\* the check, then the usage line
EstimateAndCheck(p) ==
    /\ pc[p] = "estimate"
    /\ LET sql == args[p].sql
           dry == sql.text # ""
           planned == IF dry THEN estimate_query_bytes(sql) ELSE 0
           d == check_allowance(loc[p].used_query, planned, loc[p].used_storage,
                                QUERY_LIMIT_BYTES, STORAGE_LIMIT_BYTES)
       IN \/ /\ loc' = [loc EXCEPT ![p].planned = planned]
             /\ IF d.kind = "return"
                THEN /\ hist' = [hist EXCEPT ![p].dryRuns = IF dry THEN @ + 1 ELSE @,
                                             ![p].checked = "passed"]
                     /\ pc' = [pc EXCEPT ![p] = "execute"]
                     /\ UNCHANGED outcome
                ELSE /\ hist' = [hist EXCEPT ![p].dryRuns = IF dry THEN @ + 1 ELSE @,
                                             ![p].checked = "failed"]
                     /\ Leave(p, d.err)
          \/ /\ dry
             /\ \E type \in ErrTypes : Leave(p, Upstream(type))
             /\ UNCHANGED <<loc, hist>>
    /\ UNCHANGED <<billed, dsBytes, args, it, ncalls, input, output>>

\* lines 214-220: the real query; a job that ran is billed whether or not the
\* caller gets its result
Execute(p) ==
    /\ pc[p] = "execute"
    /\ hist' = [hist EXCEPT ![p].submitted = @ + 1]
    /\ pc' = [pc EXCEPT ![p] = "done"]
    /\ LET sql == args[p].sql
           ran == [billed EXCEPT ![args[p].location] = @ + sql.bytes]
       IN \/ /\ sql.text # ""
             /\ billed[args[p].location] + sql.bytes <= MaxBilled
             /\ billed' = ran
             /\ \/ outcome' = [outcome EXCEPT ![p] = [kind |-> "returned", err |-> NoErr]]
                \/ \E type \in ErrTypes :
                      outcome' = [outcome EXCEPT ![p] = [kind |-> "raised", err |-> Upstream(type)]]
          \/ /\ billed' = billed
             /\ \E type \in ErrTypes :
                   outcome' = [outcome EXCEPT ![p] = [kind |-> "raised", err |-> Upstream(type)]]
    /\ UNCHANGED <<dsBytes, args, it, loc, ncalls, input, output>>

\* the call is over and its frame is gone
Return(p) ==
    /\ pc[p] = "done"
    /\ pc' = [pc EXCEPT ![p] = "idle"]
    /\ args' = [args EXCEPT ![p] = NoArgs]
    /\ it' = [it EXCEPT ![p] = 0]
    /\ loc' = [loc EXCEPT ![p] = NoLocals]
    /\ outcome' = [outcome EXCEPT ![p] = NoOutcome]
    /\ hist' = [hist EXCEPT ![p] = NoHist]
    /\ UNCHANGED <<billed, dsBytes, ncalls, input, output>>

\* the project's data grows or shrinks
StorageChanges ==
    /\ \E v \in StoreSizes \ {dsBytes[1]} : dsBytes' = [dsBytes EXCEPT ![1] = v]
    /\ UNCHANGED <<billed, pc, args, it, loc, outcome, hist, ncalls, input, output>>

Next ==
    \/ \E p \in Procs : Start(p)
    \/ \E p \in Procs : ProbeQuery(p)
    \/ \E p \in Procs : ProbeStorage(p)
    \/ \E p \in Procs : EstimateAndCheck(p)
    \/ \E p \in Procs : Execute(p)
    \/ \E p \in Procs : Return(p)
    \/ StorageChanges

Spec == Init /\ [][Next]_vars

(***************************************************************************)
(* Properties of safe_query                                                *)
(***************************************************************************)
QuotaOrigins == {"query_quota", "storage_quota"}

\* C2: with fail_soft = false a failed quota check is raised to the caller and
\* no real query is submitted; in any call the real query is submitted at most
\* once, and only after both usage probes and the dry-run estimate of that call
\* completed and the check passed.
C2_ExecuteOnlyAfterEstimate ==
    \A p \in Procs :
        /\ (pc[p] = "done" /\ ~args[p].fail_soft /\ hist[p].checked = "failed") =>
              /\ outcome[p].kind = "raised"
              /\ outcome[p].err.origin \in QuotaOrigins
              /\ hist[p].submitted = 0
        /\ hist[p].submitted <= 1
        /\ hist[p].submitted = 1 =>
              /\ hist[p].probedQ /\ hist[p].probedS
              /\ hist[p].dryRuns = 1
              /\ hist[p].checked = "passed"

\* C3: with fail_soft = true a failed quota check makes safe_query return None:
\* nothing is raised and no real query is submitted.
C3_SoftSkip ==
    \A p \in Procs :
        (args[p].fail_soft /\ hist[p].checked = "failed") =>
            /\ pc[p] = "done"
            /\ outcome[p].kind = "none"
            /\ outcome[p].err.origin \in QuotaOrigins
            /\ hist[p].submitted = 0

\* a soft call denied for storage has returned None
C3_Witness ==
    \E p \in Procs :
        /\ pc[p] = "done" /\ args[p].fail_soft
        /\ hist[p].checked = "failed"
        /\ outcome[p].kind = "none"
        /\ outcome[p].err.origin = "storage_quota"

\* C4: only a quota-exceeded condition is turned into a None result; every
\* other failure reaches the caller, with fail_soft = true as well.
C4_OnlyQuotaSoftSkipped ==
    \A p \in Procs :
        outcome[p].kind = "none" => outcome[p].err.origin \in QuotaOrigins

\* the usage the warehouse holds for a list of regions
BilledFor(regs) == SeqSum([i \in 1..Len(regs) |-> billed[LocationNamed(regs[i])]])

StoredFor(regs) ==
    SeqSum([i \in 1..Len(regs) |->
              SeqSum([j \in 1..2 |->
                        IF DatasetLocation(j) \in Spellings(LocationNamed(regs[i]))
                        THEN dsBytes[j] ELSE 0])])

\* C8: the values a call decides on are the ones the warehouse held when that
\* call probed it: each probe step stores the usage of the warehouse of that
\* step, the stored values do not change until the decision, and the decision
\* is the comparison of exactly these values with the ceilings.
C8_FreshSnapshot ==
    [][\A p \in Procs :
        /\ (pc[p] = "probe_query" /\ pc'[p] = "probe_storage") =>
              loc'[p].used_query = BilledFor(hist'[p].visitedQ)
        /\ (pc[p] = "probe_storage" /\ pc'[p] = "estimate") =>
              loc'[p].used_storage = StoredFor(hist'[p].visitedS)
        /\ pc[p] \in {"probe_storage", "estimate"} =>
              loc'[p].used_query = loc[p].used_query
        /\ pc[p] = "estimate" =>
              /\ loc'[p].used_storage = loc[p].used_storage
              /\ (hist'[p].checked = "passed") <=>
                    (/\ pc'[p] = "execute"
                     /\ loc[p].used_query + loc'[p].planned <= QUERY_LIMIT_BYTES
                     /\ loc[p].used_storage <= STORAGE_LIMIT_BYTES)
      ]_vars

\* a call has probed usage that another call's query and a change of the
\* stored data produced after the run started
C8_Witness ==
    \E p \in Procs :
        /\ hist[p].probedQ /\ hist[p].probedS
        /\ ncalls = 2
        /\ billed[S_EU] > 0
        /\ dsBytes[1] = STORAGE_LIMIT_BYTES + 1
        /\ hist[p].visitedS # <<>>
        /\ loc[p].used_query = BilledFor(hist[p].visitedQ)
        /\ loc[p].used_storage = StoredFor(hist[p].visitedS)

\* C9: a call executes on the strength of the usage it probed, not of the
\* usage at the time it executes: every call that submitted its query passed
\* the check on its own probed values, whatever was billed since.
C9_CheckThenAct ==
    \A p \in Procs :
        hist[p].submitted = 1 =>
            /\ hist[p].checked = "passed"
            /\ loc[p].used_query + loc[p].planned <= QUERY_LIMIT_BYTES
            /\ loc[p].used_storage <= STORAGE_LIMIT_BYTES

\* two interleaved calls probed the same usage, both passed, both ran, and the
\* month's billed bytes are over the ceiling
C9_Witness ==
    /\ \A p \in Procs :
          /\ pc[p] = "done" /\ outcome[p].kind = "returned"
          /\ hist[p].submitted = 1 /\ hist[p].checked = "passed"
          /\ hist[p].visitedQ = <<S_region_eu, S_region_us>>
    /\ loc[1].used_query = loc[2].used_query
    /\ BilledFor(<<S_region_eu, S_region_us>>) > QUERY_LIMIT_BYTES

\* C10: both probes visit every region of the regions argument exactly once.
C10_SameRegions ==
    \A p \in Procs :
        hist[p].probedS =>
            /\ hist[p].visitedQ = args[p].regions.items
            /\ hist[p].visitedS = args[p].regions.items

====
